---------------------------- MODULE Spec2Model ----------------------------
(***************************************************************************)
(* A model of GraphSniper.py: the brace scanner, the operation extractor,  *)
(* the strict endpoint detector, and the concurrent fetch / extract /      *)
(* merge pipeline of main().                                               *)
(*                                                                         *)
(* A text is a sequence of one-character strings.  Python indexes from 0,  *)
(* sequences here from 1: Python's js[i] is js[i + 1] below, and a Python  *)
(* slice js[a:b] is SubSeq(js, a + 1, b).                                  *)
(* An optional value (Python's None or a value) is a sequence of at most   *)
(* one element: None is << >> and a value x is << x >>.                    *)
(*                                                                         *)
(* Specifications:                                                         *)
(*   SpecScan       balanced_brace_extract on every short text             *)
(*   SpecExtract    extract_named_operations on texts made of fragments    *)
(*   SpecEndpoints  find_endpoints_strict on one quoted literal            *)
(*   Spec           main(): worker pool, merge loop, selection, schema     *)
(*   SpecCeiling    the extractor's loop for every small length ceiling    *)
(*   SpecEndpointList  find_endpoints_strict on several quoted literals    *)
(*   SpecFetch      fetch_url's retry loop                                 *)
(***************************************************************************)
EXTENDS Integers, Sequences, FiniteSets, TLC

VARIABLES
    pc,        \* position of the function-level specifications
    js,        \* the text a function is applied to
    start,     \* balanced_brace_extract's start index (1-based)
    block,     \* balanced_brace_extract's result (optional text)
    ops,       \* extract_named_operations's result: [queries, mutations]
    eps,       \* find_endpoints_strict's result: a list of texts
    ceiling,   \* the rawText ceiling the extractor runs with
    retries,   \* fetch_url's argument
    trace,     \* fetch_url: the attempts and the waits so far, in order
    fetched,   \* fetch_url's return value (optional text)
    urls,                  \* main: len(urls), the documents are 1..urls
    workers,               \* main: args.workers
    main_pc,               \* main: position of the main thread
    wpc,                   \* per document: position of its process_js task
    body,                  \* process_js local (optional text)
    beautified,            \* process_js local (optional text)
    out,                   \* per document: what its future holds
    calls,                 \* per document: the collaborators process_js called
    merged,                \* the documents whose result was merged, in order
    mstep,                 \* per document: how far the loop body has merged it
    count_log,             \* the keys line 246 incremented, in order
    aggregated_queries,    \* main: OrderedDict
    aggregated_mutations,  \* main: OrderedDict
    endpoints_counter,     \* main: Counter, as [key, count] in insertion order
    endpoint,              \* main: the selected endpoint (optional text)
    final_schema           \* the schema document written (optional)

fetchvars == << retries, trace, fetched >>

fvars == << pc, js, start, block, ops, eps, ceiling, fetchvars >>

wvars == << wpc, body, beautified, out, calls >>

avars == << merged, mstep, count_log,
            aggregated_queries, aggregated_mutations, endpoints_counter >>

pvars == << urls, workers, main_pc, wvars, avars, endpoint, final_schema >>

vars == << fvars, pvars >>

-----------------------------------------------------------------------------
(* Optional values and characters *)

None == << >>

Some(x) == << x >>

\* Python truthiness of an optional text: None and "" are falsy.
Truthy(o) == o # None /\ o[1] # << >>

UpperCase ==
    << "A", "B", "C", "D", "E", "F", "G", "H", "I", "J", "K", "L", "M",
       "N", "O", "P", "Q", "R", "S", "T", "U", "V", "W", "X", "Y", "Z" >>

LowerCase ==
    << "a", "b", "c", "d", "e", "f", "g", "h", "i", "j", "k", "l", "m",
       "n", "o", "p", "q", "r", "s", "t", "u", "v", "w", "x", "y", "z" >>

Digits == { "0", "1", "2", "3", "4", "5", "6", "7", "8", "9" }

\* str.lower() on one character
LowerChar(c) ==
    IF \E k \in 1..26 : UpperCase[k] = c
    THEN LowerCase[CHOOSE k \in 1..26 : UpperCase[k] = c]
    ELSE c

\* str.lower()
Lower(s) == [k \in 1..Len(s) |-> LowerChar(s[k])]

\* the regex class [A-Za-z0-9_] (also \w, for \b)
WordChars ==
    { UpperCase[k] : k \in 1..26 } \cup { LowerCase[k] : k \in 1..26 }
        \cup Digits \cup { "_" }

IsWordChar(c) == c \in WordChars

\* the regex class \s and the characters str.strip() removes (the ASCII ones a
\* string of this module can hold)
IsSpace(c) == c \in { " ", "\t", "\n", "\r", "\f" }

\* s.startswith(p) at offset i (1-based): s[i .. i+len(p)-1] = p
HasAt(s, i, p) ==
    /\ i >= 1
    /\ i + Len(p) - 1 <= Len(s)
    /\ SubSeq(s, i, i + Len(p) - 1) = p

StartsWith(s, p) == HasAt(s, 1, p)

\* p in s
Contains(s, p) == \E i \in 1..(Len(s) + 1) : HasAt(s, i, p)

-----------------------------------------------------------------------------
(* balanced_brace_extract *)

\* The while loop from index i with the running depth; i and start 1-based.
RECURSIVE ScanFrom(_, _, _, _)
ScanFrom(text, st, i, depth) ==
    IF i > Len(text) THEN None
    ELSE IF text[i] = "{" THEN ScanFrom(text, st, i + 1, depth + 1)
    ELSE IF text[i] = "}" THEN
        IF depth - 1 = 0 THEN Some(SubSeq(text, st, i))
        ELSE ScanFrom(text, st, i + 1, depth - 1)
    ELSE ScanFrom(text, st, i + 1, depth)

\* A scanner whose depth starts at one (it returns one closing brace early).
balanced_brace_extract_early(text, st) == ScanFrom(text, st, st, 1)

balanced_brace_extract(text, st) == ScanFrom(text, st, st, 0)

-----------------------------------------------------------------------------
(* OP_NAME_RE and extract_named_operations *)

\* First index >= i whose character is not whitespace (Len + 1 if none): \s*
RECURSIVE SkipSpaces(_, _)
SkipSpaces(text, i) ==
    IF i <= Len(text) /\ IsSpace(text[i]) THEN SkipSpaces(text, i + 1) ELSE i

\* First index >= i whose character is not in [A-Za-z0-9_]: the greedy name
RECURSIVE SkipWord(_, _)
SkipWord(text, i) ==
    IF i <= Len(text) /\ IsWordChar(text[i]) THEN SkipWord(text, i + 1) ELSE i

\* str.find(c, i): first index >= i holding c, 0 for Python's -1
RECURSIVE Find(_, _, _)
Find(text, c, i) ==
    IF i > Len(text) THEN 0
    ELSE IF text[i] = c THEN i
    ELSE Find(text, c, i + 1)

KwQuery == << "q", "u", "e", "r", "y" >>

KwMutation == << "m", "u", "t", "a", "t", "i", "o", "n" >>

\* (query|mutation) under re.IGNORECASE at index s: the keyword, or << >>
KeywordAt(text, s) ==
    IF text[s] \notin { "q", "Q", "m", "M" } THEN << >>
    ELSE IF s + 4 <= Len(text) /\ Lower(SubSeq(text, s, s + 4)) = KwQuery
        THEN KwQuery
    ELSE IF s + 7 <= Len(text) /\ Lower(SubSeq(text, s, s + 7)) = KwMutation
        THEN KwMutation
    ELSE << >>

\* OP_NAME_RE anchored at index s.  Every quantifier of the pattern has one way
\* to match (a shorter name or fewer blanks leaves a character the next item
\* refuses), so the match is computed left to right.  The result is None or the
\* match: s = m.start() + 1, e = m.end() (the index of the closing "{"),
\* kind = m.group(1).lower(), name = m.group(2).
MatchAt(text, s) ==
    LET kw == KeywordAt(text, s)
        a  == s + Len(kw)                 \* after the keyword
        b  == SkipSpaces(text, a)         \* after \s+
        c  == SkipWord(text, b)           \* after the name
        d  == SkipSpaces(text, c)         \* after \s*
        p  == Find(text, ")", d + 1)      \* the ")" closing "([^)]*)"
        e  == IF d <= Len(text) /\ text[d] = "(" /\ p # 0
              THEN SkipSpaces(text, p + 1)
              ELSE d
    IN  IF /\ kw # << >>
           /\ (s = 1 \/ ~ IsWordChar(text[s - 1]))     \* \b
           /\ b > a
           /\ c > b
           /\ e <= Len(text)
           /\ text[e] = "{"
        THEN Some([s |-> s, e |-> e, kind |-> kw, name |-> SubSeq(text, b, c - 1)])
        ELSE None

\* OP_NAME_RE.finditer(js) from index i: the non-overlapping matches, in order
RECURSIVE FindIter(_, _)
FindIter(text, i) ==
    IF i > Len(text) THEN << >>
    ELSE LET m == MatchAt(text, i)
         IN  IF m = None THEN FindIter(text, i + 1)
             ELSE << m[1] >> \o FindIter(text, m[1].e + 1)

\* the length ceiling of a rawText
RawCeiling == 30000

\* The same, with >= for > at the ceiling check.
RawWithin_exclusive(text, m, limit) ==
    LET pos == Find(text, "{", m.e)
        blk == IF pos = 0 THEN None ELSE balanced_brace_extract(text, pos)
        raw == SubSeq(text, m.s, pos - 1) \o blk[1]
    IN  IF pos = 0 \/ ~ Truthy(blk) THEN None
        ELSE IF Len(raw) >= limit THEN None
        ELSE Some(raw)

\* Lines 99-110 for one match: the rawText, or None where the loop continues.
\* limit is the number line 109 compares len(raw) with.
RawWithin(text, m, limit) ==
    LET pos == Find(text, "{", m.e)
        blk == IF pos = 0 THEN None ELSE balanced_brace_extract(text, pos)
        raw == SubSeq(text, m.s, pos - 1) \o blk[1]
    IN  IF pos = 0 \/ ~ Truthy(blk) THEN None
        ELSE IF Len(raw) > limit THEN None
        ELSE Some(raw)

\* Lines 99-110 as the program runs them: the limit is 30000.
RawOf(text, m) == RawWithin(text, m, RawCeiling)

\* An OrderedDict is a sequence of [name, raw] entries in insertion order.
DictHas(d, k) == \E i \in 1..Len(d) : d[i].name = k

DictGet(d, k) == d[CHOOSE i \in 1..Len(d) : d[i].name = k].raw

DictNames(d) == { d[i].name : i \in 1..Len(d) }

\* d[k] = v of a dict: a new key is appended, an old one keeps its place
DictSet(d, k, v) ==
    IF DictHas(d, k)
    THEN [i \in 1..Len(d) |-> IF d[i].name = k THEN [name |-> k, raw |-> v] ELSE d[i]]
    ELSE Append(d, [name |-> k, raw |-> v])

\* "if k not in d: d[k] = v"
SetIfAbsent(d, k, v) == IF DictHas(d, k) THEN d ELSE DictSet(d, k, v)

\* A loop body that assigns whether or not the name is there (last one wins).
KeepOperation_overwrite(acc, m, raw) ==
    IF m.kind = KwQuery
    THEN [acc EXCEPT !.queries = DictSet(@, m.name, raw)]
    ELSE [acc EXCEPT !.mutations = DictSet(@, m.name, raw)]

\* Lines 112-115: file the rawText under its kind unless the name is there.
KeepOperation(acc, m, raw) ==
    IF m.kind = KwQuery /\ ~ DictHas(acc.queries, m.name)
        THEN [acc EXCEPT !.queries = DictSet(@, m.name, raw)]
    ELSE IF m.kind = KwMutation /\ ~ DictHas(acc.mutations, m.name)
        THEN [acc EXCEPT !.mutations = DictSet(@, m.name, raw)]
    ELSE acc

\* The for loop over the matches ms[k..], with the two dicts so far.
RECURSIVE ExtractLoopWithin(_, _, _, _, _)
ExtractLoopWithin(text, ms, k, acc, limit) ==
    IF k > Len(ms) THEN acc
    ELSE LET raw == RawWithin(text, ms[k], limit)
         IN  ExtractLoopWithin(text, ms, k + 1,
                 IF raw = None THEN acc ELSE KeepOperation(acc, ms[k], raw[1]),
                 limit)

ExtractLoop(text, ms, k, acc) == ExtractLoopWithin(text, ms, k, acc, RawCeiling)

\* Lines 92-93: the two empty dicts
NoOps == [queries |-> << >>, mutations |-> << >>]

extract_named_operations(text) == ExtractLoop(text, FindIter(text, 1), 1, NoOps)

-----------------------------------------------------------------------------
(* ENDPOINT_CANDIDATE_RE, looks_like_endpoint, normalize_endpoint,
   find_endpoints_strict *)

Graphql == << "g", "r", "a", "p", "h", "q", "l" >>

IsQuote(c) == c \in { "\"", "'" }

\* First index >= i holding a quote character, 0 if none
RECURSIVE NextQuote(_, _)
NextQuote(text, i) ==
    IF i > Len(text) THEN 0
    ELSE IF IsQuote(text[i]) THEN i
    ELSE NextQuote(text, i + 1)

\* ENDPOINT_CANDIDATE_RE.findall(js) from index i: the group of each match.
\* [^"']* cannot cross a quote, so a match opening at quote i closes at the
\* next quote j and its group is all of text[i+1 .. j-1]; it matches when
\* "graphql" occurs in the group, letter case ignored.  The search resumes
\* after a match, and at i + 1 where nothing matches at i.
RECURSIVE FindAllLiterals(_, _)
FindAllLiterals(text, i) ==
    IF i > Len(text) THEN << >>
    ELSE IF ~ IsQuote(text[i]) THEN FindAllLiterals(text, i + 1)
    ELSE LET j == NextQuote(text, i + 1)
         IN  IF j # 0 /\ Contains(Lower(SubSeq(text, i + 1, j - 1)), Graphql)
             THEN << SubSeq(text, i + 1, j - 1) >> \o FindAllLiterals(text, j + 1)
             ELSE FindAllLiterals(text, i + 1)

RECURSIVE LStrip(_)
LStrip(s) == IF s # << >> /\ IsSpace(Head(s)) THEN LStrip(Tail(s)) ELSE s

RECURSIVE RStrip(_)
RStrip(s) ==
    IF s # << >> /\ IsSpace(s[Len(s)]) THEN RStrip(SubSeq(s, 1, Len(s) - 1)) ELSE s

\* str.strip()
Strip(s) == RStrip(LStrip(s))

\* the characters of "{}();=<>\t\n"
StructuralChars == { "{", "}", "(", ")", ";", "=", "<", ">", "\t", "\n" }

MinEndpointLen == 5

EndpointPrefixes ==
    { << "h", "t", "t", "p", ":", "/", "/" >>,
      << "h", "t", "t", "p", "s", ":", "/", "/" >>,
      << "/", "/" >>,
      << "/" >> }

looks_like_endpoint(s0) ==
    LET s == Strip(s0)
    IN  IF Len(s) < MinEndpointLen THEN FALSE
        ELSE IF \E k \in 1..Len(s) : s[k] \in StructuralChars THEN FALSE
        ELSE /\ \E p \in EndpointPrefixes : StartsWith(s, p)
             /\ Contains(Lower(s), Graphql)

\* A normalizer that leaves protocol-relative candidates as they are.
normalize_endpoint_asis(s) == s

normalize_endpoint(s) ==
    IF StartsWith(s, << "/", "/" >>) THEN << "h", "t", "t", "p", "s", ":" >> \o s
    ELSE s

\* A dedup that keeps the last occurrence of each element instead.
RECURSIVE DedupKeepLast(_)
DedupKeepLast(xs) ==
    IF xs = << >> THEN << >>
    ELSE LET rest  == DedupKeepLast(SubSeq(xs, 2, Len(xs)))
             first == xs[1]
         IN  IF \E k \in 1..Len(rest) : rest[k] = first THEN rest
             ELSE << first >> \o rest

\* list(dict.fromkeys(xs)): the first occurrence of each element, in order
RECURSIVE DedupKeepFirst(_)
DedupKeepFirst(xs) ==
    IF xs = << >> THEN << >>
    ELSE LET rest == DedupKeepFirst(SubSeq(xs, 1, Len(xs) - 1))
             last == xs[Len(xs)]
         IN  IF \E k \in 1..Len(rest) : rest[k] = last THEN rest
             ELSE Append(rest, last)

\* The for loop over the literals lits[k..], appending to acc
RECURSIVE EndpointLoop(_, _, _)
EndpointLoop(lits, k, acc) ==
    IF k > Len(lits) THEN acc
    ELSE LET ep == Strip(lits[k])
         IN  EndpointLoop(lits, k + 1,
                 IF looks_like_endpoint(ep) THEN Append(acc, normalize_endpoint(ep))
                 ELSE acc)

\* A detector that returns the list as collected, repeats included.
find_endpoints_strict_repeats(text) == EndpointLoop(FindAllLiterals(text, 1), 1, << >>)

find_endpoints_strict(text) ==
    DedupKeepFirst(EndpointLoop(FindAllLiterals(text, 1), 1, << >>))

-----------------------------------------------------------------------------
(* main: the aggregate state and its merge step *)

MaxDocs == 2

MaxWorkers == 2

DocIds == 1..MaxDocs

\* Line 214: out = {"queries": {}, "mutations": {}, "ep": []}
EmptyOut == [queries |-> << >>, mutations |-> << >>, ep |-> << >>]

\* Lines 248-250 (and 252-254): every entry of d, in order, unless its name is there
RECURSIVE MergeDict(_, _, _)
MergeDict(agg, d, k) ==
    IF k > Len(d) THEN agg
    ELSE MergeDict(SetIfAbsent(agg, d[k].name, d[k].raw), d, k + 1)

\* A loop body that assigns the result's dict to the aggregate.
MergeOperations_replace(agg, d) == d

\* A loop body that fills the aggregate from the first result that has
\* operations and ignores the later ones.
MergeOperations_first_only(agg, d) == IF agg = << >> THEN d ELSE agg

\* A merge that assigns whether or not the name is there (last merged wins).
RECURSIVE MergeOperations_overwrite(_, _)
MergeOperations_overwrite(agg, d) ==
    IF d = << >> THEN agg
    ELSE MergeOperations_overwrite(DictSet(agg, d[1].name, d[1].raw), Tail(d))

MergeOperations(agg, d) == MergeDict(agg, d, 1)

CounterHas(c, key) == \E i \in 1..Len(c) : c[i].key = key

\* Counter lookup: a missing key counts 0
CounterGet(c, key) ==
    IF CounterHas(c, key) THEN c[CHOOSE i \in 1..Len(c) : c[i].key = key].count ELSE 0

\* endpoints_counter[ep] += 1: a new key is appended with count 1
CounterInc(c, key) ==
    IF CounterHas(c, key)
    THEN [i \in 1..Len(c) |-> IF c[i].key = key
                              THEN [key |-> key, count |-> c[i].count + 1]
                              ELSE c[i]]
    ELSE Append(c, [key |-> key, count |-> 1])

\* Lines 245-246: for ep in res["ep"]: endpoints_counter[ep] += 1
RECURSIVE CountEndpoints(_, _, _)
CountEndpoints(c, eplist, k) ==
    IF k > Len(eplist) THEN c
    ELSE CountEndpoints(CounterInc(c, eplist[k]), eplist, k + 1)

\* A selection that takes the first key counted, whatever its count.
SelectEndpoint_first(c) == IF c = << >> THEN None ELSE Some(c[1].key)

\* A selection that takes the last key in insertion order among those with
\* the greatest count.
SelectEndpoint_latest(c) ==
    IF c = << >> THEN None
    ELSE LET best == CHOOSE i \in 1..Len(c) :
                        /\ \A j \in 1..Len(c) : c[j].count <= c[i].count
                        /\ \A j \in (i + 1)..Len(c) : c[j].count < c[i].count
         IN  Some(c[best].key)

\* Lines 260-262: None for an empty counter, else most_common(1)[0][0], the
\* first key in insertion order among those with the greatest count.
SelectEndpoint(c) ==
    IF c = << >> THEN None
    ELSE LET best == CHOOSE i \in 1..Len(c) :
                        /\ \A j \in 1..Len(c) : c[j].count <= c[i].count
                        /\ \A j \in 1..(i - 1) : c[j].count < c[i].count
         IN  Some(c[best].key)

\* The state of the pipeline while a function-level specification runs
\* Line 48: retries=2
DefaultRetries == 2

\* Line 53: the status of a response whose text is returned
StatusOK == 200

\* fetch_url is not running
FetchIdle ==
    /\ retries = DefaultRetries
    /\ trace = << >>
    /\ fetched = None

PipelineIdle ==
    /\ urls = 0
    /\ workers = 1
    /\ main_pc = "idle"
    /\ wpc = [d \in DocIds |-> "none"]
    /\ body = [d \in DocIds |-> None]
    /\ beautified = [d \in DocIds |-> None]
    /\ out = [d \in DocIds |-> EmptyOut]
    /\ calls = [d \in DocIds |-> << >>]
    /\ merged = << >>
    /\ mstep = [d \in DocIds |-> "no"]
    /\ count_log = << >>
    /\ aggregated_queries = << >>
    /\ aggregated_mutations = << >>
    /\ endpoints_counter = << >>
    /\ endpoint = None
    /\ final_schema = None

-----------------------------------------------------------------------------
(* SpecScan: balanced_brace_extract on every short text over { } a *)

MaxScanLen == 6

ScanAlphabet == { "{", "}", "a" }

RECURSIVE TextsUpTo(_, _)
TextsUpTo(alphabet, n) ==
    IF n = 0 THEN { << >> }
    ELSE LET shorter == TextsUpTo(alphabet, n - 1)
         IN  shorter \cup { Append(t, c) : t \in shorter, c \in alphabet }

InitScan ==
    /\ pc = "scan"
    /\ js \in TextsUpTo(ScanAlphabet, MaxScanLen)
    /\ start \in 1..MaxScanLen
    /\ start <= Len(js)
    /\ block = None
    /\ ops = NoOps
    /\ eps = << >>
    /\ ceiling = RawCeiling
    /\ FetchIdle
    /\ PipelineIdle

Scan ==
    /\ pc = "scan"
    /\ block' = balanced_brace_extract(js, start)
    /\ pc' = "scanned"
    /\ UNCHANGED << js, start, ops, eps, ceiling,
                    fetchvars, pvars >>

NextScan == Scan

SpecScan == InitScan /\ [][NextScan]_vars

\* Brace depth of text[st .. i], every brace counted, computed by counting.
Depth(text, st, i) ==
    Cardinality({ k \in st..i : text[k] = "{" })
        - Cardinality({ k \in st..i : text[k] = "}" })

\* C1: started at an opening brace, balanced_brace_extract returns the text from
\* start through a closing brace where the depth is zero and was positive at every
\* earlier position, or None; None exactly when the depth never returns to zero.
C1_ScanContract ==
    (pc = "scanned" /\ js[start] = "{") =>
        /\ (block = None) <=> ~ \E i \in start..Len(js) : Depth(js, start, i) = 0
        /\ block # None =>
              \E e \in start..Len(js) :
                  /\ block[1] = SubSeq(js, start, e)
                  /\ js[e] = "}"
                  /\ Depth(js, start, e) = 0
                  /\ \A i \in start..(e - 1) : Depth(js, start, i) > 0

\* A nested block is cut out of the middle of a text.
C1_Witness ==
    /\ pc = "scanned"
    /\ js[start] = "{"
    /\ start > 1
    /\ block # None
    /\ Len(block[1]) = 4
    /\ Len(block[1]) < Len(js) - start + 1

-----------------------------------------------------------------------------
(* SpecExtract: extract_named_operations on texts put together from fragments *)

MaxFrags == 4

\* Pieces of declarations: two spellings of "query F", a mutation of the same
\* name, argument lists holding braces, bodies, lone braces and a blank.
ExtractFragments ==
    { << "q", "u", "e", "r", "y", " ", "F" >>,
      << "Q", "u", "e", "r", "y", " ", "F" >>,
      << "m", "u", "t", "a", "t", "i", "o", "n", " ", "F" >>,
      << "(", "}", ")" >>,
      << "(", "{", "}", ")" >>,
      << "{", "a", "}" >>,
      << "{", "b", "}" >>,
      << "{" >>,
      << "}" >>,
      << " " >> }

\* The concatenations of at most n fragments
RECURSIVE Concats(_, _)
Concats(frags, n) ==
    IF n = 0 THEN { << >> }
    ELSE LET shorter == Concats(frags, n - 1)
         IN  shorter \cup { t \o f : t \in shorter, f \in frags }

InitExtract ==
    /\ pc = "extract"
    /\ js \in Concats(ExtractFragments, MaxFrags)
    /\ start = 1
    /\ block = None
    /\ ops = NoOps
    /\ eps = << >>
    /\ ceiling = RawCeiling
    /\ FetchIdle
    /\ PipelineIdle

Extract ==
    /\ pc = "extract"
    /\ ops' = extract_named_operations(js)
    /\ pc' = "extracted"
    /\ UNCHANGED << js, start, block, eps, ceiling,
                    fetchvars, pvars >>

NextExtract == Extract

SpecExtract == InitExtract /\ [][NextExtract]_vars

\* The dict of the result that holds the operations of one kind
DictOfKind(kind) == IF kind = KwQuery THEN ops.queries ELSE ops.mutations

\* Declaration f of ms is the first of its kind and name among those in `among`
IsFirstOf(ms, f, among) ==
    /\ f \in among
    /\ \A g \in among :
          (ms[g].kind = ms[f].kind /\ ms[g].name = ms[f].name) => f <= g

\* C2 as amended: per kind and name the result holds the first declaration that
\* is not discarded (a declaration whose block never closes, or whose rawText
\* is over the ceiling, does not count); no later declaration of that kind and
\* name replaces it, and the result holds nothing else.
C2_FirstKeptWins ==
    pc = "extracted" =>
        LET ms   == FindIter(js, 1)                      \* in document order
            raws == [k \in 1..Len(ms) |-> RawOf(js, ms[k])]
            kept == { k \in 1..Len(ms) : raws[k] # None }
        IN  \A kind \in { KwQuery, KwMutation } :
                LET d == DictOfKind(kind) IN
                /\ \A i, j \in 1..Len(d) : d[i].name = d[j].name => i = j
                /\ \A i \in 1..Len(d) :
                      \E f \in kept : ms[f].kind = kind /\ ms[f].name = d[i].name
                /\ \A f \in kept :
                      (ms[f].kind = kind /\ IsFirstOf(ms, f, kept)) =>
                          /\ DictHas(d, ms[f].name)
                          /\ DictGet(d, ms[f].name) = raws[f][1]

\* Two declarations of one kind and name with different texts, both kept
C2_Witness ==
    /\ pc = "extracted"
    /\ LET ms   == FindIter(js, 1)
           raws == [k \in 1..Len(ms) |-> RawOf(js, ms[k])]
           kept == { k \in 1..Len(ms) : raws[k] # None }
       IN  \E f, g \in kept :
              /\ f < g
              /\ IsFirstOf(ms, f, kept)
              /\ ms[g].kind = ms[f].kind
              /\ ms[g].name = ms[f].name
              /\ raws[g] # raws[f]
              /\ DictGet(DictOfKind(ms[f].kind), ms[f].name) = raws[f][1]

\* C2 as stated: what the result holds under a name is the first declaration of
\* that kind and name in the document; every later one is ignored.
C2_FirstDeclarationWins ==
    pc = "extracted" =>
        LET ms == FindIter(js, 1) IN
        \A f \in 1..Len(ms) :
            (IsFirstOf(ms, f, 1..Len(ms)) /\ DictHas(DictOfKind(ms[f].kind), ms[f].name))
            => RawOf(js, ms[f]) = Some(DictGet(DictOfKind(ms[f].kind), ms[f].name))

\* The rawTexts of the result
RawTexts ==
    { ops.queries[i].raw : i \in 1..Len(ops.queries) }
        \cup { ops.mutations[i].raw : i \in 1..Len(ops.mutations) }

\* C4: every rawText of the result is brace-balanced over its whole length:
\* counted from its first character the depth is zero at its last character
\* and at no earlier position after its first opening brace.
C4_RawTextBalanced ==
    pc = "extracted" =>
        \A raw \in RawTexts :
            /\ Depth(raw, 1, Len(raw)) = 0
            /\ \A i \in Find(raw, "{", 1)..(Len(raw) - 1) : Depth(raw, 1, i) # 0

-----------------------------------------------------------------------------
(* SpecEndpoints: find_endpoints_strict on one double-quoted literal whose
   content is put together from fragments (a single quote inside splits it) *)

MaxEpFrags == 4

EndpointFragments ==
    { << "/" >>,
      << "h", "t", "t", "p", "s", ":" >>,
      << "h", "t", "t", "p", ":" >>,
      << "g", "r", "a", "p", "h", "q", "l" >>,
      << "G", "r", "a", "p", "h", "Q", "L" >>,
      << "x" >>,
      << "(" >>,
      << "\t" >>,
      << "'" >> }

InitEndpoints ==
    /\ pc = "endpoints"
    /\ \E content \in Concats(EndpointFragments, MaxEpFrags) :
          js = << "\"" >> \o content \o << "\"" >>
    /\ start = 1
    /\ block = None
    /\ ops = NoOps
    /\ eps = << >>
    /\ ceiling = RawCeiling
    /\ FetchIdle
    /\ PipelineIdle

FindEndpoints ==
    /\ pc = "endpoints"
    /\ eps' = find_endpoints_strict(js)
    /\ pc' = "found"
    /\ UNCHANGED << js, start, block, ops, ceiling,
                    fetchvars, pvars >>

NextEndpoints == FindEndpoints

SpecEndpoints == InitEndpoints /\ [][NextEndpoints]_vars

\* A text with its leading and trailing whitespace removed, by position
Trimmed(lit) ==
    LET solid == { k \in 1..Len(lit) : ~ IsSpace(lit[k]) }
    IN  IF solid = { } THEN << >>
        ELSE SubSeq(lit, CHOOSE a \in solid : \A k \in solid : a <= k,
                         CHOOSE b \in solid : \A k \in solid : k <= b)

\* The conditions of the claim on a candidate text s
MeetsEndpointConditions(s) ==
    /\ \A k \in 1..Len(s) :
          s[k] \notin { "{", "}", "(", ")", ";", "=", "<", ">", "\t", "\n" }
    /\ Len(s) >= 5
    /\ \/ StartsWith(s, << "h", "t", "t", "p", ":", "/", "/" >>)
       \/ StartsWith(s, << "h", "t", "t", "p", "s", ":", "/", "/" >>)
       \/ StartsWith(s, << "/", "/" >>)
       \/ StartsWith(s, << "/" >>)

\* What the claim says is emitted for an accepted text s
EmittedFor(s) ==
    IF StartsWith(s, << "/", "/" >>) THEN << "h", "t", "t", "p", "s", ":" >> \o s
    ELSE s

\* C5 as amended: every emitted endpoint comes from a quoted literal holding
\* "graphql" (any letter case) which, once its leading and trailing whitespace
\* is removed, has no structural character, is at least 5 characters long and
\* begins with http://, https://, // or /; what is emitted is that trimmed
\* text, with "https:" in front when it begins with //, so no emitted endpoint
\* begins with //.
C5_StrictEndpoints ==
    pc = "found" =>
        LET lits == FindAllLiterals(js, 1) IN
        \A k \in 1..Len(eps) :
            /\ ~ StartsWith(eps[k], << "/", "/" >>)
            /\ \E n \in 1..Len(lits) :
                  /\ Contains(Lower(lits[n]), Graphql)
                  /\ MeetsEndpointConditions(Trimmed(lits[n]))
                  /\ eps[k] = EmittedFor(Trimmed(lits[n]))

\* A protocol-relative literal with leading whitespace is emitted with https:
C5_Witness ==
    /\ pc = "found"
    /\ Len(eps) = 1
    /\ StartsWith(eps[1], << "h", "t", "t", "p", "s", ":", "/", "/" >>)
    /\ \E n \in 1..Len(FindAllLiterals(js, 1)) :
          LET lit == FindAllLiterals(js, 1)[n] IN
          /\ IsSpace(lit[1])
          /\ StartsWith(Trimmed(lit), << "/", "/" >>)
          /\ eps[1] = EmittedFor(Trimmed(lit))

\* C5 as stated: the conditions hold of the quoted literal itself, and the
\* literal is emitted unchanged unless it begins with //.
C5_LiteralItself ==
    pc = "found" =>
        LET lits == FindAllLiterals(js, 1) IN
        \A k \in 1..Len(eps) :
            /\ ~ StartsWith(eps[k], << "/", "/" >>)
            /\ \E n \in 1..Len(lits) :
                  /\ Contains(Lower(lits[n]), Graphql)
                  /\ MeetsEndpointConditions(lits[n])
                  /\ eps[k] = EmittedFor(lits[n])

-----------------------------------------------------------------------------
(* Spec: main() from the URL list on: the worker pool running process_js,
   the as_completed merge loop, the endpoint selection and the schema *)

\* The bodies a fetch can return.  Two documents declare query F with different
\* bodies, two declare mutation F with different bodies.  The first quotes
\* "/graphql" then "/GraphQL", the second "/GraphQL" twice, the third a
\* protocol-relative endpoint then "/graphql", the fourth "/GraphQL" then
\* "/graphql".
DocBodies ==
    { << "q", "u", "e", "r", "y", " ", "F", "{", "a", "}",
         "\"", "/", "g", "r", "a", "p", "h", "q", "l", "\"",
         "\"", "/", "G", "r", "a", "p", "h", "Q", "L", "\"" >>,
      << "q", "u", "e", "r", "y", " ", "F", "{", "b", "}",
         "\"", "/", "G", "r", "a", "p", "h", "Q", "L", "\"",
         "'", "/", "G", "r", "a", "p", "h", "Q", "L", "'" >>,
      << "m", "u", "t", "a", "t", "i", "o", "n", " ", "F", "{", "a", "}",
         "\"", "/", "/", "g", "r", "a", "p", "h", "q", "l", "\"",
         "\"", "/", "g", "r", "a", "p", "h", "q", "l", "\"" >>,
      << "m", "u", "t", "a", "t", "i", "o", "n", " ", "F", "{", "b", "}",
         "q", "u", "e", "r", "y", " ", "G", "{", "a", "}",
         "\"", "/", "G", "r", "a", "p", "h", "Q", "L", "\"",
         "\"", "/", "g", "r", "a", "p", "h", "q", "l", "\"" >> }

\* fetch_url returns None, or r.text of a 200 response (which may be empty)
FetchOutcomes == { None, Some(<< >>) } \cup { Some(t) : t \in DocBodies }

\* jsbeautifier.beautify is a collaborator: it returns some text
BeautifyOutcomes == DocBodies

Docs == 1..urls

FunctionsIdle ==
    /\ pc = "idle"
    /\ js = << >>
    /\ start = 1
    /\ block = None
    /\ ops = NoOps
    /\ eps = << >>
    /\ ceiling = RawCeiling
    /\ FetchIdle

Init ==
    /\ FunctionsIdle
    /\ urls \in 0..MaxDocs
    /\ workers \in 1..MaxWorkers
    /\ main_pc = "discovered"
    /\ wpc = [d \in DocIds |-> "none"]
    /\ body = [d \in DocIds |-> None]
    /\ beautified = [d \in DocIds |-> None]
    /\ out = [d \in DocIds |-> EmptyOut]
    /\ calls = [d \in DocIds |-> << >>]
    /\ merged = << >>
    /\ mstep = [d \in DocIds |-> "no"]
    /\ count_log = << >>
    /\ aggregated_queries = << >>
    /\ aggregated_mutations = << >>
    /\ endpoints_counter = << >>
    /\ endpoint = None
    /\ final_schema = None

\* Lines 204-206: no URL, main returns
ExitNoUrls ==
    /\ main_pc = "discovered"
    /\ urls = 0
    /\ main_pc' = "exited"
    /\ UNCHANGED << fvars, urls, workers, wvars, avars, endpoint, final_schema >>

\* A main that goes on to the pool whether or not there is a URL.
Submit_unguarded ==
    /\ main_pc = "discovered"
    /\ wpc' = [d \in DocIds |-> IF d \in Docs THEN "queued" ELSE "none"]
    /\ main_pc' = "merging"
    /\ UNCHANGED << fvars, urls, workers, body, beautified, out, calls, avars,
                    endpoint, final_schema >>

\* Lines 209-211 and 239-240: the empty aggregate state, the pool, one future
\* per URL
Submit ==
    /\ main_pc = "discovered"
    /\ urls > 0
    /\ wpc' = [d \in DocIds |-> IF d \in Docs THEN "queued" ELSE "none"]
    /\ main_pc' = "merging"
    /\ UNCHANGED << fvars, urls, workers, body, beautified, out, calls, avars,
                    endpoint, final_schema >>

Running == { d \in Docs : wpc[d] \in { "fetch", "beautify", "persist", "extract" } }

\* A free worker thread takes the oldest queued task
StartTask(d) ==
    /\ wpc[d] = "queued"
    /\ \A e \in Docs : wpc[e] = "queued" => d <= e
    /\ Cardinality(Running) < workers
    /\ wpc' = [wpc EXCEPT ![d] = "fetch"]
    /\ UNCHANGED << fvars, urls, workers, main_pc, body, beautified, out, calls,
                    avars, endpoint, final_schema >>

\* A guard that takes only None for a failed fetch.
FetchFailed_none_only(b) == b = None

\* Line 217: if not body
FetchFailed(b) == ~ Truthy(b)

\* How a fetch ended, for the record of calls
FetchKind(b) ==
    IF b = None THEN "fetch:none"
    ELSE IF b[1] = << >> THEN "fetch:empty"
    ELSE "fetch:text"

\* Lines 214-218: body = fetch_url(url); an empty result is returned at once
Fetch(d) ==
    /\ wpc[d] = "fetch"
    /\ \E b \in FetchOutcomes :
          /\ calls' = [calls EXCEPT ![d] = Append(@, FetchKind(b))]
          /\ IF FetchFailed(b)
             THEN /\ out' = [out EXCEPT ![d] = EmptyOut]
                  /\ wpc' = [wpc EXCEPT ![d] = "returned"]
                  /\ UNCHANGED body
             ELSE /\ body' = [body EXCEPT ![d] = b]
                  /\ wpc' = [wpc EXCEPT ![d] = "beautify"]
                  /\ UNCHANGED out
    /\ UNCHANGED << fvars, urls, workers, main_pc, beautified, avars,
                    endpoint, final_schema >>

\* Lines 220-221: beautify returns; body is not read again
BeautifyReturns(d) ==
    /\ wpc[d] = "beautify"
    /\ \E t \in BeautifyOutcomes : beautified' = [beautified EXCEPT ![d] = Some(t)]
    /\ body' = [body EXCEPT ![d] = None]
    /\ calls' = [calls EXCEPT ![d] = Append(@, "beautify")]
    /\ wpc' = [wpc EXCEPT ![d] = "persist"]
    /\ UNCHANGED << fvars, urls, workers, main_pc, out, avars, endpoint, final_schema >>

\* Lines 220-223: beautify raises and the except clause keeps the body
BeautifyRaises(d) ==
    /\ wpc[d] = "beautify"
    /\ beautified' = [beautified EXCEPT ![d] = body[d]]
    /\ body' = [body EXCEPT ![d] = None]
    /\ calls' = [calls EXCEPT ![d] = Append(@, "beautify")]
    /\ wpc' = [wpc EXCEPT ![d] = "persist"]
    /\ UNCHANGED << fvars, urls, workers, main_pc, out, avars, endpoint, final_schema >>

\* Lines 226-229: the file name, open and write succeed
PersistReturns(d) ==
    /\ wpc[d] = "persist"
    /\ calls' = [calls EXCEPT ![d] = Append(@, "persist")]
    /\ wpc' = [wpc EXCEPT ![d] = "extract"]
    /\ UNCHANGED << fvars, urls, workers, main_pc, body, beautified, out, avars,
                    endpoint, final_schema >>

\* Lines 226-229: urlparse, open or write raises (no handler in process_js):
\* the task ends and its future holds the exception
PersistRaises(d) ==
    /\ wpc[d] = "persist"
    /\ calls' = [calls EXCEPT ![d] = Append(@, "persist")]
    /\ beautified' = [beautified EXCEPT ![d] = None]
    /\ wpc' = [wpc EXCEPT ![d] = "raised"]
    /\ UNCHANGED << fvars, urls, workers, main_pc, body, out, avars,
                    endpoint, final_schema >>

\* Lines 231-236: what process_js returns for the beautified text t
ResultOfText(t) ==
    LET found == extract_named_operations(t)
    IN  [queries   |-> found.queries,
         mutations |-> found.mutations,
         ep        |-> find_endpoints_strict(t)]

\* The same, computed once for each text a task can hold
ResultOfBody == [t \in DocBodies \cup BeautifyOutcomes |-> ResultOfText(t)]

\* Lines 231-237: extraction and endpoint detection on the beautified text
ExtractDocument(d) ==
    /\ wpc[d] = "extract"
    /\ out' = [out EXCEPT ![d] = ResultOfBody[beautified[d][1]]]
    /\ calls' = [calls EXCEPT ![d] = Append(@, "extract")]
    /\ beautified' = [beautified EXCEPT ![d] = None]
    /\ wpc' = [wpc EXCEPT ![d] = "returned"]
    /\ UNCHANGED << fvars, urls, workers, main_pc, body, avars, endpoint, final_schema >>

\* The documents as_completed has yielded
Yielded == { d \in Docs : mstep[d] # "no" }

\* A loop that takes the next future while a loop body is under way.
LoopAtHead_reentrant == main_pc \in { "merging", "count", "queries", "mutations" }

\* Line 242: the for statement asks as_completed for the next future between
\* two runs of the loop body
LoopAtHead == main_pc = "merging"

\* A loop over the futures in the order they were submitted.
CanYield_in_submission_order(d) ==
    /\ wpc[d] \in { "returned", "raised" }
    /\ mstep[d] = "no"
    /\ \A e \in Docs : e < d => mstep[e] # "no"

\* Line 242: as_completed yields a future that has finished and that it has
\* not yielded before
CanYield(d) ==
    /\ wpc[d] \in { "returned", "raised" }
    /\ mstep[d] = "no"

\* Lines 242-243: as_completed yields a future that returned; res is its result
Yield(d) ==
    /\ LoopAtHead
    /\ CanYield(d)
    /\ wpc[d] = "returned"
    /\ mstep' = [mstep EXCEPT ![d] = "count"]
    /\ main_pc' = "count"
    /\ UNCHANGED << fvars, urls, workers, wvars, merged, count_log,
                    aggregated_queries, aggregated_mutations, endpoints_counter,
                    endpoint, final_schema >>

\* Lines 245-246
MergeEndpoints(d) ==
    /\ main_pc = "count"
    /\ mstep[d] = "count"
    /\ endpoints_counter' = CountEndpoints(endpoints_counter, out[d].ep, 1)
    /\ count_log' = count_log \o out[d].ep
    /\ mstep' = [mstep EXCEPT ![d] = "queries"]
    /\ main_pc' = "queries"
    /\ UNCHANGED << fvars, urls, workers, wvars, merged,
                    aggregated_queries, aggregated_mutations, endpoint, final_schema >>

\* Lines 248-250
MergeQueries(d) ==
    /\ main_pc = "queries"
    /\ mstep[d] = "queries"
    /\ aggregated_queries' = MergeOperations(aggregated_queries, out[d].queries)
    /\ mstep' = [mstep EXCEPT ![d] = "mutations"]
    /\ main_pc' = "mutations"
    /\ UNCHANGED << fvars, urls, workers, wvars, merged, count_log,
                    aggregated_mutations, endpoints_counter, endpoint, final_schema >>

\* Lines 252-254: the loop body ends and the loop is at its head again
MergeMutations(d) ==
    /\ main_pc = "mutations"
    /\ mstep[d] = "mutations"
    /\ aggregated_mutations' = MergeOperations(aggregated_mutations, out[d].mutations)
    /\ mstep' = [mstep EXCEPT ![d] = "done"]
    /\ merged' = Append(merged, d)
    /\ main_pc' = "merging"
    /\ UNCHANGED << fvars, urls, workers, wvars, count_log,
                    aggregated_queries, endpoints_counter, endpoint, final_schema >>

\* Lines 242-254: one step of the loop body for the result of document d
Merge(d) ==
    \/ Yield(d)
    \/ MergeEndpoints(d)
    \/ MergeQueries(d)
    \/ MergeMutations(d)

\* Lines 242-243: as_completed yields a future that holds an exception;
\* fut.result() raises it in main, the pool is shut down and main ends
MergeRaises(d) ==
    /\ LoopAtHead
    /\ CanYield(d)
    /\ wpc[d] = "raised"
    /\ main_pc' = "aborted"
    /\ UNCHANGED << fvars, urls, workers, wvars, avars, endpoint, final_schema >>

\* Line 242: every future has been yielded, the loop and the with block end
EndMergeLoop ==
    /\ LoopAtHead
    /\ Yielded = Docs
    /\ main_pc' = "select"
    /\ UNCHANGED << fvars, urls, workers, wvars, avars, endpoint, final_schema >>

\* Lines 259-262
ChooseEndpoint ==
    /\ main_pc = "select"
    /\ endpoint' = SelectEndpoint(endpoints_counter)
    /\ main_pc' = "build"
    /\ UNCHANGED << fvars, urls, workers, wvars, avars, final_schema >>

\* Lines 264-283: the schema is built from the aggregate state and written
WriteSchema ==
    /\ main_pc = "build"
    /\ final_schema' = Some([endpoint  |-> endpoint,
                             queries   |-> [k \in 1..Len(aggregated_queries) |->
                                               aggregated_queries[k].name],
                             mutations |-> [k \in 1..Len(aggregated_mutations) |->
                                               aggregated_mutations[k].name]])
    /\ main_pc' = "done"
    /\ UNCHANGED << fvars, urls, workers, wvars, avars, endpoint >>

Next ==
    \/ ExitNoUrls
    \/ Submit
    \/ \E d \in Docs : StartTask(d)
    \/ \E d \in Docs : Fetch(d)
    \/ \E d \in Docs : BeautifyReturns(d)
    \/ \E d \in Docs : BeautifyRaises(d)
    \/ \E d \in Docs : PersistReturns(d)
    \/ \E d \in Docs : PersistRaises(d)
    \/ \E d \in Docs : ExtractDocument(d)
    \/ \E d \in Docs : Yield(d)
    \/ \E d \in Docs : MergeEndpoints(d)
    \/ \E d \in Docs : MergeQueries(d)
    \/ \E d \in Docs : MergeMutations(d)
    \/ \E d \in Docs : MergeRaises(d)
    \/ EndMergeLoop
    \/ ChooseEndpoint
    \/ WriteSchema

Spec == Init /\ [][Next]_vars

\* The documents that define name in the dict `field` of their result
Defines(d, field, name) == DictHas(out[d][field], name)

\* The merged documents in order, then the document whose result the loop
\* body is merging, if any
MergeOrder ==
    LET under_way == { d \in Docs : mstep[d] \notin { "no", "done" } }
    IN  IF under_way = { } THEN merged
        ELSE Append(merged, CHOOSE d \in under_way : TRUE)

\* The aggregated dict is first-merged-wins with respect to the results' dicts
FirstMergedWins(agg, field) ==
    /\ \A i, j \in 1..Len(agg) : agg[i].name = agg[j].name => i = j
    /\ \A i \in 1..Len(agg) :
          \E k \in 1..Len(MergeOrder) :
              /\ Defines(MergeOrder[k], field, agg[i].name)
              /\ \A h \in 1..(k - 1) : ~ Defines(MergeOrder[h], field, agg[i].name)
              /\ agg[i].raw = DictGet(out[MergeOrder[k]][field], agg[i].name)
    /\ \A k \in 1..Len(merged) :
          \A n \in DictNames(out[merged[k]][field]) : DictHas(agg, n)

\* C3: in every state of the merge loop, each name of the aggregated queries
\* (mutations) holds the raw text of the first merged document that defines it;
\* a later merged document defining the name leaves the entry as it is.
C3_FirstMergedWins ==
    /\ FirstMergedWins(aggregated_queries, "queries")
    /\ FirstMergedWins(aggregated_mutations, "mutations")

\* Two merged documents define query F with different texts; the first's is kept
C3_Witness ==
    /\ Len(merged) = 2
    /\ \E n \in DictNames(aggregated_queries) :
          /\ Defines(merged[1], "queries", n)
          /\ Defines(merged[2], "queries", n)
          /\ DictGet(out[merged[1]].queries, n) # DictGet(out[merged[2]].queries, n)
          /\ DictGet(aggregated_queries, n) = DictGet(out[merged[1]].queries, n)

\* The elements of a list
Elements(xs) == { xs[k] : k \in 1..Len(xs) }

\* Every endpoint candidate some document's result lists
AllCandidates == UNION { Elements(out[d].ep) : d \in Docs }

CounterKeys == { endpoints_counter[i].key : i \in 1..Len(endpoints_counter) }

\* C6: once all documents are merged and the endpoint is selected, it is a
\* candidate whose count is at least the count of every candidate, and it is
\* null exactly when no document contributed a candidate.
C6_MostCommonEndpoint ==
    main_pc \in { "build", "done" } =>
        /\ (endpoint = None) <=> (AllCandidates = { })
        /\ endpoint # None =>
              /\ endpoint[1] \in AllCandidates
              /\ \A c \in AllCandidates \cup CounterKeys :
                    CounterGet(endpoints_counter, c)
                        <= CounterGet(endpoints_counter, endpoint[1])

\* The selected endpoint was counted second and has the greater count
C6_Witness ==
    /\ main_pc = "done"
    /\ Len(endpoints_counter) >= 2
    /\ endpoint = Some(endpoints_counter[2].key)
    /\ endpoints_counter[1].count < endpoints_counter[2].count

\* C7: when the merge loop has finished, the count of each candidate is the
\* number of documents whose result lists it.
C7_CountPerDocument ==
    main_pc \in { "select", "build", "done" } =>
        /\ \A i, j \in 1..Len(endpoints_counter) :
              endpoints_counter[i].key = endpoints_counter[j].key => i = j
        /\ \A c \in AllCandidates \cup CounterKeys :
              CounterGet(endpoints_counter, c)
                  = Cardinality({ d \in Docs : c \in Elements(out[d].ep) })

\* Two documents list a candidate, one of them from a text that quotes it
\* twice, and its count is 2
C7_Witness ==
    /\ main_pc = "done"
    /\ \E c \in CounterKeys :
          /\ CounterGet(endpoints_counter, c) = 2
          /\ \E d \in Docs, t \in DocBodies :
                /\ out[d].ep = find_endpoints_strict(t)
                /\ out[d].queries = extract_named_operations(t).queries
                /\ c \in Elements(out[d].ep)
                /\ Cardinality({ n \in 1..Len(FindAllLiterals(t, 1)) :
                                    normalize_endpoint(Strip(FindAllLiterals(t, 1)[n])) = c })
                       = 2

\* Every task has ended
TasksEnded == \A d \in Docs : wpc[d] \in { "returned", "raised" }

\* main has ended, one way or another, and so has every task
RunEnded == main_pc \in { "done", "aborted" } /\ TasksEnded

\* C8: whatever fails while one document is processed, the run still merges
\* the results of all other documents and emits the final schema.
C8_NoFailureAbortsBatch ==
    RunEnded =>
        /\ final_schema # None
        /\ \A d \in Docs : wpc[d] = "returned" => d \in Yielded

\* C9: the pipeline runs to completion: when the run has ended, the result of
\* every document whose task returned one has been merged, exactly once, and
\* the aggregate state is read for the schema only after all documents are
\* merged.
C9_AllMergedOnce ==
    /\ RunEnded =>
          \A d \in Docs :
              wpc[d] = "returned" =>
                  Cardinality({ k \in 1..Len(merged) : merged[k] = d }) = 1
    /\ main_pc \in { "select", "build", "done" } => Yielded = Docs

\* C10: a task whose fetch returned None or an empty body returns the empty
\* result, without raising and without calling beautify, the persistence
\* write, the extractor or the endpoint detector.
C10_EmptyOnFetchFailure ==
    \A d \in Docs :
        (calls[d] # << >> /\ calls[d][1] \in { "fetch:none", "fetch:empty" }) =>
            /\ wpc[d] = "returned"
            /\ out[d] = EmptyOut
            /\ Len(calls[d]) = 1

\* One document's fetch returned an empty body, another's returned None; both
\* were merged as empty results and the schema was written
C10_Witness ==
    /\ main_pc = "done"
    /\ \E d, e \in Docs :
          /\ calls[d] = << "fetch:empty" >>
          /\ calls[e] = << "fetch:none" >>
          /\ out[d] = EmptyOut
          /\ out[e] = EmptyOut
          /\ { d, e } \subseteq Yielded

-----------------------------------------------------------------------------
(* SpecCeiling: the extractor's loop with the number of line 109 as a       *)
(* parameter.  The program's number is RawCeiling, which no text of the     *)
(* model reaches; here the same loop runs with every ceiling from 1 to      *)
(* MaxCeiling on texts whose rawTexts are shorter than, as long as and      *)
(* longer than the ceiling.                                                 *)

MaxCeiling == 11

CeilingFragments ==
    { << "q", "u", "e", "r", "y", " ", "F" >>,
      << "{", "a", "}" >>,
      << "{", "a", "a", "}" >>,
      << "{" >>,
      << "}" >>,
      << " " >> }

InitCeiling ==
    /\ pc = "extract"
    /\ js \in Concats(CeilingFragments, MaxFrags)
    /\ start = 1
    /\ block = None
    /\ ops = NoOps
    /\ eps = << >>
    /\ ceiling \in 1..MaxCeiling
    /\ FetchIdle
    /\ PipelineIdle

ExtractWithin ==
    /\ pc = "extract"
    /\ ops' = ExtractLoopWithin(js, FindIter(js, 1), 1, NoOps, ceiling)
    /\ pc' = "extracted"
    /\ UNCHANGED << js, start, block, eps, ceiling,
                    fetchvars, pvars >>

NextCeiling == ExtractWithin

SpecCeiling == InitCeiling /\ [][NextCeiling]_vars

\* The signature of match m followed by its scanned block, whatever its
\* length; None where the block never closes.
SignatureAndBlock(text, m) ==
    LET pos == Find(text, "{", m.e)
        blk == IF pos = 0 THEN None ELSE balanced_brace_extract(text, pos)
    IN  IF pos = 0 \/ blk = None THEN None
        ELSE Some(SubSeq(text, m.s, pos - 1) \o blk[1])

\* C11: no rawText of the result is longer than the ceiling.  A declaration
\* whose signature plus block is longer than the ceiling is not recorded under
\* its name and does not keep a later declaration of its kind and name from
\* being recorded: per kind and name the result holds the first declaration
\* whose signature plus block is at most the ceiling long, one of exactly the
\* ceiling length included, and no name that has no such declaration.
C11_CeilingDiscards ==
    pc = "extracted" =>
        LET ms     == FindIter(js, 1)
            cands  == [k \in 1..Len(ms) |-> SignatureAndBlock(js, ms[k])]
            within == { k \in 1..Len(ms) :
                           cands[k] # None /\ Len(cands[k][1]) <= ceiling }
        IN  \A kind \in { KwQuery, KwMutation } :
                LET d == DictOfKind(kind) IN
                /\ \A i \in 1..Len(d) : Len(d[i].raw) <= ceiling
                /\ \A i \in 1..Len(d) :
                      \E f \in within : ms[f].kind = kind /\ ms[f].name = d[i].name
                /\ \A f \in within :
                      (ms[f].kind = kind /\ IsFirstOf(ms, f, within)) =>
                          /\ DictHas(d, ms[f].name)
                          /\ DictGet(d, ms[f].name) = cands[f][1]

\* A declaration one character over the ceiling was discarded, and a later
\* declaration of the same kind and name, exactly the ceiling long, is the
\* one recorded
C11_Witness ==
    /\ pc = "extracted"
    /\ LET ms    == FindIter(js, 1)
           cands == [k \in 1..Len(ms) |-> SignatureAndBlock(js, ms[k])]
       IN  \E f, g \in 1..Len(ms) :
               /\ f < g
               /\ ms[f].kind = ms[g].kind /\ ms[f].name = ms[g].name
               /\ cands[f] # None /\ Len(cands[f][1]) = ceiling + 1
               /\ cands[g] # None /\ Len(cands[g][1]) = ceiling
               /\ DictGet(DictOfKind(ms[g].kind), ms[g].name) = cands[g][1]

-----------------------------------------------------------------------------
(* SpecEndpointList: find_endpoints_strict on texts holding up to MaxLits   *)
(* quoted literals one after the other.                                     *)

MaxLits == 3

\* Quoted literals: three that normalize to two endpoints of host h, the same
\* path with leading whitespace and in another letter case, one without an
\* accepted prefix and one with a structural character.
LiteralFragments ==
    { << "\"", "/", "/", "h", "/", "g", "r", "a", "p", "h", "q", "l", "\"" >>,
      << "'", "h", "t", "t", "p", "s", ":", "/", "/", "h", "/",
         "g", "r", "a", "p", "h", "q", "l", "'" >>,
      << "\"", "/", "g", "r", "a", "p", "h", "q", "l", "\"" >>,
      << "'", " ", "/", "g", "r", "a", "p", "h", "q", "l", "'" >>,
      << "\"", "/", "G", "r", "a", "p", "h", "Q", "L", "\"" >>,
      << "\"", "g", "r", "a", "p", "h", "q", "l", "\"" >>,
      << "'", "/", "g", "r", "a", "p", "h", "q", "l", "(", "'" >> }

InitEndpointList ==
    /\ pc = "endpoints"
    /\ js \in Concats(LiteralFragments, MaxLits)
    /\ start = 1
    /\ block = None
    /\ ops = NoOps
    /\ eps = << >>
    /\ ceiling = RawCeiling
    /\ FetchIdle
    /\ PipelineIdle

NextEndpointList == FindEndpoints

SpecEndpointList == InitEndpointList /\ [][NextEndpointList]_vars

\* C12: the list find_endpoints_strict returns holds no text twice, holds the
\* normalized form of every accepted literal and nothing else, and lists them
\* in the order in which each first occurs among the literals of the text; two
\* literals with the same normalized form give one element.
C12_DistinctInFirstOccurrenceOrder ==
    pc = "found" =>
        LET lits     == FindAllLiterals(js, 1)
            accepted == { n \in 1..Len(lits) :
                             /\ Contains(Lower(lits[n]), Graphql)
                             /\ MeetsEndpointConditions(Trimmed(lits[n])) }
            norm     == [n \in 1..Len(lits) |-> EmittedFor(Trimmed(lits[n]))]
            FirstAt(e) == CHOOSE n \in accepted :
                              /\ norm[n] = e
                              /\ \A m \in accepted : norm[m] = e => n <= m
        IN  /\ \A i, j \in 1..Len(eps) : eps[i] = eps[j] => i = j
            /\ { eps[k] : k \in 1..Len(eps) } = { norm[n] : n \in accepted }
            /\ \A i, j \in 1..Len(eps) :
                  i < j => FirstAt(eps[i]) < FirstAt(eps[j])

\* A protocol-relative literal, then a literal of another endpoint, then the
\* https form of the first: the list is the https form, then the other
C12_Witness ==
    /\ pc = "found"
    /\ LET lits == FindAllLiterals(js, 1) IN
       /\ Len(lits) = 3
       /\ StartsWith(lits[1], << "/", "/" >>)
       /\ lits[3] = << "h", "t", "t", "p", "s", ":" >> \o lits[1]
       /\ lits[2] # lits[1]
       /\ eps = << lits[3], lits[2] >>

-----------------------------------------------------------------------------
(* Claims about main() as a whole, under Spec *)

\* C13: when discovery yields no document, main goes from the URL list
\* straight to its return: no task is ever queued or started, no collaborator
\* is called, the merge loop is never entered and the aggregate state is never
\* written, no endpoint is selected and no schema is written; and main can
\* always take the return.
C13_NoDocumentsNoPipeline ==
    urls = 0 =>
        /\ main_pc \in { "discovered", "exited" }
        /\ main_pc = "discovered" => ENABLED ExitNoUrls
        /\ \A d \in DocIds :
              /\ wpc[d] = "none"
              /\ calls[d] = << >>
              /\ mstep[d] = "no"
              /\ out[d] = EmptyOut
        /\ merged = << >>
        /\ count_log = << >>
        /\ aggregated_queries = << >>
        /\ aggregated_mutations = << >>
        /\ endpoints_counter = << >>
        /\ endpoint = None
        /\ final_schema = None

\* main has returned from a run with no document
C13_Witness ==
    /\ urls = 0
    /\ main_pc = "exited"


\* The documents whose result the loop body has begun and not finished merging
UnderWay == { d \in Docs : mstep[d] \notin { "no", "done" } }

OwnResults == { EmptyOut } \cup { ResultOfText(t) : t \in BeautifyOutcomes }

\* The three containers of the aggregate state
aggregate == << aggregated_queries, aggregated_mutations, endpoints_counter >>

\* C14: merges are serialized.  In every state at most one document's merge is
\* under way, and one is under way exactly while main is inside the loop body;
\* a document's merge begins only when no other is under way; a step that
\* changes anything of a process_js task leaves the aggregate state as it is; a
\* step that changes the aggregate state is a step of main inside the loop
\* body, for the one document under way; and what a task returns is the result
\* of its own text, whatever the aggregate state holds.
C14_MergesSerialized ==
    /\ [](/\ Cardinality(UnderWay) <= 1
          /\ (UnderWay # { }) <=> (main_pc \in { "count", "queries", "mutations" })
          /\ \A d \in Docs : wpc[d] = "returned" => out[d] \in OwnResults)
    /\ [][/\ \A d \in Docs :
                (mstep[d] = "no" /\ mstep'[d] # "no") => UnderWay = { }
          /\ wvars' # wvars => aggregate' = aggregate
          /\ aggregate' # aggregate =>
                /\ main_pc \in { "count", "queries", "mutations" }
                /\ \E d \in UnderWay : mstep'[d] # mstep[d]
                /\ wvars' = wvars]_vars

\* main is in the middle of one document's merge, with the endpoint counts
\* written and the queries not yet, while another document's result is ready
\* and has not been yielded
C14_Witness ==
    \E d, e \in Docs :
        /\ mstep[d] = "queries"
        /\ endpoints_counter # << >>
        /\ wpc[e] = "returned"
        /\ out[e] # EmptyOut
        /\ mstep[e] = "no"


\* Documents d and e both define name in the dict `field`, with different texts
Conflict(d, e, field, name) ==
    /\ Defines(d, field, name)
    /\ Defines(e, field, name)
    /\ DictGet(out[d][field], name) # DictGet(out[e][field], name)

\* The entry of name in agg is that of the earliest document of the merge
\* order that defines it
EarliestDefinerWins(agg, field, name) ==
    \E k \in 1..Len(MergeOrder) :
        /\ Defines(MergeOrder[k], field, name)
        /\ \A h \in 1..(k - 1) : ~ Defines(MergeOrder[h], field, name)
        /\ DictGet(agg, name) = DictGet(out[MergeOrder[k]][field], name)

\* C15: results are merged in the order they complete, not the order they
\* were submitted.  Whenever two documents that define the same operation with
\* different texts have both returned and neither has been yielded, the loop
\* can take either first, whichever was submitted first; and whenever the
\* aggregate holds such a name, its text is that of the document merged first
\* among those that define it.
C15_CompletionOrderDecides ==
    \A d, e \in Docs :
        \A field \in { "queries", "mutations" } :
            \A name \in DictNames(out[d][field]) :
                Conflict(d, e, field, name) =>
                    /\ (/\ LoopAtHead
                        /\ wpc[d] = "returned" /\ wpc[e] = "returned"
                        /\ mstep[d] = "no" /\ mstep[e] = "no")
                           => (ENABLED Yield(d)) /\ (ENABLED Yield(e))
                    /\ LET agg == IF field = "queries" THEN aggregated_queries
                                  ELSE aggregated_mutations
                       IN  DictHas(agg, name) =>
                               EarliestDefinerWins(agg, field, name)

\* With two workers the document submitted second has returned and been merged
\* while the one submitted first is still at its extraction of a text that
\* declares the same query with another body: the aggregate holds the body of
\* the second
C15_Witness ==
    /\ workers >= 2
    /\ merged = << 2 >>
    /\ wpc[1] = "extract"
    /\ \E name \in DictNames(out[2].queries) :
          LET theirs == ResultOfText(beautified[1][1]).queries IN
          /\ DictHas(theirs, name)
          /\ DictGet(theirs, name) # DictGet(out[2].queries, name)
          /\ DictGet(aggregated_queries, name) = DictGet(out[2].queries, name)

\* Both conflicting results are ready and the loop has yielded neither
C15_BranchPoint ==
    /\ LoopAtHead
    /\ \E name \in DictNames(out[1].queries) : Conflict(1, 2, "queries", name)
    /\ wpc[1] = "returned" /\ wpc[2] = "returned"
    /\ mstep[1] = "no" /\ mstep[2] = "no"

-----------------------------------------------------------------------------
(* SpecFetch: fetch_url, one requests.get per loop iteration.  An attempt   *)
(* ends with a response (a status and a text) or with an exception; trace   *)
(* records the attempts and the waits in the order they happen.             *)

MaxRetries == 3

\* The texts a response can carry
ResponseTexts == { << >>, << "a" >>, << "b" >> }

\* What one requests.get can do: answer, or raise
AttemptOutcomes ==
    [kind : { "response" }, status : { StatusOK, 404, 500 }, text : ResponseTexts]
        \cup [kind : { "exception" }, what : { "Timeout", "ConnectionError" }]

\* Line 56: time.sleep(0.15)
Backoff == [kind |-> "sleep"]

IsAttempt(ev) == ev.kind \in { "response", "exception" }

\* Line 53: r.status_code == 200
Answered200(ev) == ev.kind = "response" /\ ev.status = StatusOK

\* The number of requests.get calls so far
Attempts == Cardinality({ i \in 1..Len(trace) : IsAttempt(trace[i]) })

\* A loop that runs once more than range(retries).
HasNextAttempt_inclusive(done, n) == done <= n

\* Line 50: for _ in range(retries), after `done` iterations
HasNextAttempt(done, n) == done < n

InitFetch ==
    /\ pc = "fetch_loop"
    /\ js = << >>
    /\ start = 1
    /\ block = None
    /\ ops = NoOps
    /\ eps = << >>
    /\ ceiling = RawCeiling
    /\ retries \in 0..MaxRetries
    /\ trace = << >>
    /\ fetched = None
    /\ PipelineIdle

\* Lines 51-54: the attempt answers 200 and its text is returned
AttemptReturns ==
    /\ pc = "fetch_loop"
    /\ HasNextAttempt(Attempts, retries)
    /\ \E o \in AttemptOutcomes :
          /\ Answered200(o)
          /\ trace' = Append(trace, o)
          /\ fetched' = Some(o.text)
    /\ pc' = "fetch_returned"
    /\ UNCHANGED << js, start, block, ops, eps, ceiling, retries, pvars >>

\* Lines 51-53: the attempt answers another status; the try block ends and
\* the loop goes on
AttemptRefused ==
    /\ pc = "fetch_loop"
    /\ HasNextAttempt(Attempts, retries)
    /\ \E o \in AttemptOutcomes :
          /\ o.kind = "response"
          /\ ~ Answered200(o)
          /\ trace' = Append(trace, o)
    /\ pc' = "fetch_loop"
    /\ UNCHANGED << js, start, block, ops, eps, ceiling, retries, fetched, pvars >>

\* Lines 51-52 and 55: the attempt raises and the except clause is entered
AttemptRaises ==
    /\ pc = "fetch_loop"
    /\ HasNextAttempt(Attempts, retries)
    /\ \E o \in AttemptOutcomes :
          /\ o.kind = "exception"
          /\ trace' = Append(trace, o)
    /\ pc' = "fetch_except"
    /\ UNCHANGED << js, start, block, ops, eps, ceiling, retries, fetched, pvars >>

\* Line 56: the wait of the except clause, then the loop goes on
Sleep ==
    /\ pc = "fetch_except"
    /\ trace' = Append(trace, Backoff)
    /\ pc' = "fetch_loop"
    /\ UNCHANGED << js, start, block, ops, eps, ceiling, retries, fetched, pvars >>

\* Line 57: the loop is exhausted
ReturnNone ==
    /\ pc = "fetch_loop"
    /\ ~ HasNextAttempt(Attempts, retries)
    /\ fetched' = None
    /\ pc' = "fetch_returned"
    /\ UNCHANGED << js, start, block, ops, eps, ceiling, retries, trace, pvars >>

NextFetch ==
    \/ AttemptReturns
    \/ AttemptRefused
    \/ AttemptRaises
    \/ Sleep
    \/ ReturnNone

SpecFetch == InitFetch /\ [][NextFetch]_vars

\* C16: fetch_url makes at most `retries` attempts and can always take a next
\* step until it has returned.  When it has returned: either the last attempt
\* answered 200, was the only one that did, and its text is what is returned;
\* or None is returned, `retries` attempts were made and each raised or
\* answered another status.  The text of a response with another status is
\* never returned, and an attempt that raises leads to the wait of the except
\* clause, never out of fetch_url.
C16_BoundedAttempts ==
    /\ pc \in { "fetch_loop", "fetch_except", "fetch_returned" }
    /\ Attempts <= retries
    /\ pc # "fetch_returned" => ENABLED NextFetch
    /\ pc = "fetch_except" => trace[Len(trace)].kind = "exception"
    /\ pc = "fetch_returned" =>
          LET ok == { i \in 1..Len(trace) : Answered200(trace[i]) }
          IN  \/ /\ ok = { Len(trace) }
                 /\ fetched = Some(trace[Len(trace)].text)
              \/ /\ ok = { }
                 /\ fetched = None
                 /\ Attempts = retries

\* With the default two attempts, the first raised and the second answered 200
\* with a text, which is returned
C16_Witness ==
    /\ pc = "fetch_returned"
    /\ retries = DefaultRetries
    /\ Len(trace) = 3
    /\ trace[1].kind = "exception"
    /\ Answered200(trace[3])
    /\ fetched = Some(<< "a" >>)

\* C17: every attempt after the first comes directly after exactly one wait,
\* which comes directly after the failed attempt before it, whether that
\* attempt raised or answered a status other than 200.
C17_BackoffBeforeEveryRetry ==
    \A i \in 2..Len(trace) :
        IsAttempt(trace[i]) =>
            /\ trace[i - 1] = Backoff
            /\ i >= 3
            /\ IsAttempt(trace[i - 2])

-----------------------------------------------------------------------------
(* Claims about the merge steps and the selection, under Spec *)

\* The positions of count_log at which key c was incremented
CountedAt(c) == { i \in 1..Len(count_log) : count_log[i] = c }

\* The increment that first counted c, and the one that brought c to its
\* final count
FirstCounted(c) == CHOOSE i \in CountedAt(c) : \A j \in CountedAt(c) : i <= j

ReachedFinalCount(c) == CHOOSE i \in CountedAt(c) : \A j \in CountedAt(c) : j <= i

\* The candidates other than the selected one that have its count
TiedWithSelected ==
    { c \in CounterKeys \ { endpoint[1] } :
          CounterGet(endpoints_counter, c)
              = CounterGet(endpoints_counter, endpoint[1]) }

\* C18 as amended: among the candidates that share the highest final count,
\* the selected endpoint is the one that was counted first (the one whose
\* first increment came first in the merge steps).
C18_FirstCountedWinsTie ==
    (main_pc \in { "build", "done" } /\ endpoint # None) =>
        /\ \A c \in CounterKeys :
              CounterGet(endpoints_counter, c)
                  <= CounterGet(endpoints_counter, endpoint[1])
        /\ \A c \in TiedWithSelected :
              FirstCounted(endpoint[1]) < FirstCounted(c)

\* Two candidates end with the same highest count; the selected one was
\* counted first, and the other reached the final count before it
C18_Witness ==
    /\ main_pc = "done"
    /\ endpoint # None
    /\ \E c \in TiedWithSelected :
          /\ FirstCounted(endpoint[1]) < FirstCounted(c)
          /\ ReachedFinalCount(c) < ReachedFinalCount(endpoint[1])

\* C18 as stated: among the candidates that share the highest final count,
\* the selected endpoint is the one that reached that count first.
C18_FirstToReachWinsTie ==
    (main_pc \in { "build", "done" } /\ endpoint # None) =>
        \A c \in TiedWithSelected :
            ReachedFinalCount(endpoint[1]) < ReachedFinalCount(c)


\* C19: the aggregate state only grows.  No step removes a name from the
\* aggregated queries or mutations, removes a candidate from the counter or
\* lowers a candidate's count; and the loop-body steps for a document whose
\* result is empty leave the three containers as they are.
C19_AggregateOnlyGrows ==
    [][/\ DictNames(aggregated_queries) \subseteq DictNames(aggregated_queries')
       /\ DictNames(aggregated_mutations) \subseteq DictNames(aggregated_mutations')
       /\ \A i \in 1..Len(endpoints_counter) :
             /\ CounterHas(endpoints_counter', endpoints_counter[i].key)
             /\ CounterGet(endpoints_counter', endpoints_counter[i].key)
                    >= endpoints_counter[i].count
       /\ \A d \in Docs :
             (mstep'[d] # mstep[d] /\ out[d] = EmptyOut) => aggregate' = aggregate
      ]_vars

\* A document with operations and candidates was merged, then a document with
\* the empty result; the aggregate state holds what the first gave it
C19_Witness ==
    /\ Len(merged) = 2
    /\ out[merged[2]] = EmptyOut
    /\ endpoints_counter # << >>
    /\ aggregated_queries = out[merged[1]].queries
    /\ aggregated_queries # << >>
    /\ aggregated_mutations = out[merged[1]].mutations


\* C20: what the merge loop ends with does not depend on the order of the
\* merges in three respects, each a function of the set of results alone: the
\* aggregated query names are the union of the results' query names, the
\* aggregated mutation names the union of their mutation names, and the
\* counter holds every candidate some result lists, each with the number of
\* results that list it.
C20_OrderIndependentTotals ==
    main_pc \in { "select", "build", "done" } =>
        /\ DictNames(aggregated_queries)
               = UNION { DictNames(out[d].queries) : d \in Docs }
        /\ DictNames(aggregated_mutations)
               = UNION { DictNames(out[d].mutations) : d \in Docs }
        /\ CounterKeys = AllCandidates
        /\ \A c \in AllCandidates :
              CounterGet(endpoints_counter, c)
                  = Cardinality({ d \in Docs : c \in Elements(out[d].ep) })
        /\ final_schema # None =>
              /\ Elements(final_schema[1].queries) = DictNames(aggregated_queries)
              /\ Elements(final_schema[1].mutations) = DictNames(aggregated_mutations)

\* The second document was merged before the first; they define the same
\* query with different texts, both list one candidate and only one of them
\* lists another
C20_Witness ==
    /\ main_pc = "done"
    /\ merged = << 2, 1 >>
    /\ \E name \in DictNames(out[1].queries) : Conflict(1, 2, "queries", name)
    /\ Elements(out[1].ep) \cap Elements(out[2].ep) # { }
    /\ Elements(out[1].ep) # Elements(out[2].ep)
    /\ \E c \in CounterKeys : CounterGet(endpoints_counter, c) = 2

=============================================================================
